---- MODULE Spec2Model ----
(***************************************************************************)
(* Model of the GeoIP build pipeline of src/main.go: the decoder `parse`,  *)
(* the CIDR source reader `fetchChinaIPCIDR`, the override of the `cn`     *)
(* entry, the trie encoder `newWriter`/`write`, the text emitters          *)
(* `writeCIDRsToFile` and the driver `release`.                            *)
(*                                                                         *)
(* Addresses are small integers.  An IPv4 address has AddrBits bits, an    *)
(* IPv6 address one bit more; the IPv4 addresses are the lower half of the *)
(* IPv6 space (the ::/96 subtree of a MaxMind database).  A network is a   *)
(* record [fam, base, len] (a net.IPNet: family, masked address, prefix    *)
(* length).  Go's unordered map iteration is a permutation of the keys     *)
(* chosen nondeterministically at every `range` over a map.                *)
(***************************************************************************)
EXTENDS Integers, Sequences, FiniteSets, TLC

VARIABLES
    pc,          \* position of the running function
    args,        \* arguments of the function under call
    binary,      \* release: the bytes of Country.mmdb that download returned
    ret,         \* [err, stage, skip]: what the function returned
    metadata,    \* release: metadata returned by parse
    decoded,     \* release: the map as parse returned it
    countryMap,  \* release: countryMap (mutated by the override)
    chinaCIDRs,  \* release: result of fetchChinaIPCIDR
    fs,          \* file system: path -> [state, data]
    insertLog,   \* writer.Insert calls of the latest write, in call order
    outputs,     \* trie bytes produced by successive runs of write
    pending,     \* release: keys the rule-set loop has not visited yet
    stale        \* codes whose rule-set files an earlier build left behind

vars == <<pc, args, binary, ret, metadata, decoded, countryMap, chinaCIDRs, fs,
          insertLog, outputs, pending, stale>>

----------------------------------------------------------------------------
(* Bounds *)

AddrBits == 1      \* bits of an IPv4 address
MaxNets == 2       \* networks in a database, a map or a range list
MaxLines == 2      \* lines in the body of one text source

----------------------------------------------------------------------------
(* Country codes and their lexicographic order *)

Codes == <<"cn", "jp", "us">>

CodeSet == {Codes[i] : i \in 1..Len(Codes)}

IsoCodes == {"CN", "JP", "US"}

ToLower(s) ==
    CASE s = "CN" -> "cn"
      [] s = "JP" -> "jp"
      [] s = "US" -> "us"
      [] OTHER -> s

Rank(code) == CHOOSE i \in 1..Len(Codes) : Codes[i] = code

Less(a, b) == Rank(a) < Rank(b)

RECURSIVE InsertSorted(_, _)
InsertSorted(x, s) ==
    IF s = <<>> THEN <<x>>
    ELSE IF Less(x, Head(s)) THEN <<x>> \o s
    ELSE <<Head(s)>> \o InsertSorted(x, Tail(s))

RECURSIVE SortStrings(_)
SortStrings(s) ==
    IF s = <<>> THEN <<>> ELSE InsertSorted(Head(s), SortStrings(Tail(s)))

Range(s) == {s[i] : i \in 1..Len(s)}

SeqsUpTo(S, n) == UNION {[1..k -> S] : k \in 0..n}

Perms(S) ==
    {p \in [1..Cardinality(S) -> S] : \A i, j \in 1..Cardinality(S) : p[i] = p[j] => i = j}

----------------------------------------------------------------------------
(* Networks *)

RECURSIVE Pow2(_)
Pow2(n) == IF n = 0 THEN 1 ELSE 2 * Pow2(n - 1)

Width(fam) == IF fam = 4 THEN AddrBits ELSE AddrBits + 1

Net(fam, base, len) == [fam |-> fam, base |-> base, len |-> len]

Mask(fam, addr, len) == addr - (addr % Pow2(Width(fam) - len))

Nets(fam) ==
    {Net(fam, Mask(fam, a, l), l) : a \in 0..(Pow2(Width(fam)) - 1), l \in 0..Width(fam)}

AllNets == Nets(4) \cup Nets(6)

\* The part of a tree of depth Width(ipVersion) a network occupies: an IPv4
\* network sits in the lower half of an IPv6 tree.
TreeLen(ipVersion, n) == n.len + (Width(ipVersion) - Width(n.fam))

Covered(ipVersion, n) ==
    n.base .. (n.base + Pow2(Width(ipVersion) - TreeLen(ipVersion, n)) - 1)

TreeAddrs(ipVersion) == 0..(Pow2(Width(ipVersion)) - 1)

Nil == "nil"

EmptyMap == [c \in {} |-> <<>>]

\* m[code] = append(m[code], x), creating the key when it is missing
MapAppend(m, code, x) ==
    [c \in DOMAIN m \cup {code} |->
        IF c = code
        THEN (IF c \in DOMAIN m THEN Append(m[c], x) ELSE <<x>>)
        ELSE m[c]]

----------------------------------------------------------------------------
(* Binary Trie Decoder: parse *)

RecordSizes == {24}

ZeroMetadata == [IPVersion |-> 0, RecordSize |-> 0]

\* A leaf of the source trie is [base, len, iso] in the address space of the
\* database; the iterator reports a leaf of the IPv4 subtree of an IPv6
\* database as an IPv4 network.
Network(ipVersion, leaf) ==
    IF ipVersion = 6 /\ leaf.len >= 1 /\ leaf.base < Pow2(AddrBits)
    THEN Net(4, leaf.base, leaf.len - 1)
    ELSE Net(ipVersion, leaf.base, leaf.len)

\* The walk of networks.Next()/networks.Network(&country) from leaf i on.
\* db.readFail = i: reading leaf i fails; db.walkErr: the traversal stops
\* after the leaves with networks.Err() set.
RECURSIVE Walk(_, _, _)
Walk(db, i, m) ==
    IF i > Len(db.leaves)
    THEN [countryMap |-> m, err |-> IF db.walkErr THEN "walk" ELSE Nil]
    ELSE IF db.readFail = i
    THEN [countryMap |-> m, err |-> "read"]
    ELSE Walk(db, i + 1,
              MapAppend(m, ToLower(db.leaves[i].iso), Network(db.ipVersion, db.leaves[i])))

parse(db) ==
    IF ~db.valid
    THEN [metadata |-> ZeroMetadata, countryMap |-> EmptyMap, err |-> "open"]
    ELSE LET w == Walk(db, 1, EmptyMap)
         IN  [metadata |-> [IPVersion |-> db.ipVersion, RecordSize |-> db.recordSize],
              countryMap |-> w.countryMap,
              err |-> w.err]

\* The leaves of a trie are disjoint and are walked in address order.
Ascending(leaves, ipVersion) ==
    \A i \in 1..(Len(leaves) - 1) :
        leaves[i].base + Pow2(Width(ipVersion) - leaves[i].len) <= leaves[i + 1].base

LeafPool(ipVersion) ==
    {[base |-> n.base, len |-> n.len, iso |-> iso] : n \in Nets(ipVersion), iso \in IsoCodes}

\* Host routes only: the first two and the last address of the space.
HostLeafPool(ipVersion) ==
    {l \in LeafPool(ipVersion) :
        l.len = Width(ipVersion) /\ l.base \in {0, 1, Pow2(Width(ipVersion)) - 1}}

\* The databases of one IP version whose leaves come from pool P.  A read
\* failure (readFail > 0) and a failed traversal (walkErr) exclude each other.
DatabasesOf(v, P) ==
    UNION {
        {[valid |-> TRUE, ipVersion |-> v, recordSize |-> rs, leaves |-> ls,
          readFail |-> f[1], walkErr |-> f[2]] :
            rs \in RecordSizes,
            f \in {<<0, FALSE>>, <<0, TRUE>>} \cup {<<i, FALSE>> : i \in 1..Len(ls)}} :
        ls \in {s \in SeqsUpTo(P, MaxNets) : Ascending(s, v)}}

InvalidDatabase ==
    [valid |-> FALSE, ipVersion |-> 0, recordSize |-> 0, leaves |-> <<>>,
     readFail |-> 0, walkErr |-> FALSE]

Databases(pool4, pool6) ==
    {InvalidDatabase} \cup DatabasesOf(4, pool4) \cup DatabasesOf(6, pool6)

----------------------------------------------------------------------------
(* CIDR Source Reader: fetchChinaIPCIDR *)

Urls == <<"chnroutes2/chnroutes.txt", "china-operator-ip/china6.txt">>

\* A line of text: pad says whether white space surrounds it; kind is what
\* the text is: "blank" (nothing), "comment" (starts with #), "garbage" (no
\* CIDR) or "cidr" (the text <addr>/<len> of family fam).
Line(pad, kind, fam, addr, len) ==
    [pad |-> pad, kind |-> kind, fam |-> fam, addr |-> addr, len |-> len]

TrimSpace(line) == [line EXCEPT !.pad = FALSE]

IsEmpty(line) == line.kind = "blank" /\ ~line.pad

HasCommentPrefix(line) == line.kind = "comment" /\ ~line.pad

\* net.ParseCIDR: fails on surrounding white space, on text that is no CIDR
\* and on a prefix longer than the address; masks the host bits.
ParseCIDR(line) ==
    IF line.pad \/ line.kind # "cidr" \/ line.len > Width(line.fam)
    THEN [ipNet |-> Net(0, 0, 0), err |-> "invalid CIDR"]
    ELSE [ipNet |-> Net(line.fam, Mask(line.fam, line.addr, line.len), line.len), err |-> Nil]

\* ScanLines with an invalid line ending the scan of its body.
RECURSIVE ScanLinesAbort(_, _, _)
ScanLinesAbort(body, i, allCIDRs) ==
    IF i > Len(body) THEN allCIDRs
    ELSE LET line == TrimSpace(body[i])
         IN  IF ~IsEmpty(line) /\ ~HasCommentPrefix(line)
             THEN IF ParseCIDR(line).err # Nil
                  THEN allCIDRs
                  ELSE ScanLinesAbort(body, i + 1, Append(allCIDRs, ParseCIDR(line).ipNet))
             ELSE ScanLinesAbort(body, i + 1, allCIDRs)

\* The scanner loop over the lines of one body, from line i on.
RECURSIVE ScanLines(_, _, _)
ScanLines(body, i, allCIDRs) ==
    IF i > Len(body) THEN allCIDRs
    ELSE LET line == TrimSpace(body[i])
         IN  IF ~IsEmpty(line) /\ ~HasCommentPrefix(line)
             THEN IF ParseCIDR(line).err # Nil
                  THEN ScanLines(body, i + 1, allCIDRs)
                  ELSE ScanLines(body, i + 1, Append(allCIDRs, ParseCIDR(line).ipNet))
             ELSE ScanLines(body, i + 1, allCIDRs)

\* The loop over the urls, from url i on.  responses[i] is what http.Get
\* answers for Urls[i]: [getErr, body, scanErr]; scanErr is the scanner
\* failing after the lines of body (a read error or a line too long).
RECURSIVE FetchUrls(_, _, _)
FetchUrls(responses, i, allCIDRs) ==
    IF i > Len(Urls) THEN [cidrs |-> allCIDRs, err |-> Nil]
    ELSE IF responses[i].getErr THEN [cidrs |-> <<>>, err |-> "get"]
    ELSE LET scanned == ScanLines(responses[i].body, 1, allCIDRs)
         IN  IF responses[i].scanErr THEN [cidrs |-> <<>>, err |-> "scan"]
             ELSE FetchUrls(responses, i + 1, scanned)

fetchChinaIPCIDR(responses) == FetchUrls(responses, 1, <<>>)

Response(getErr, body, scanErr) == [getErr |-> getErr, body |-> body, scanErr |-> scanErr]

\* What the servers may answer with at most n lines of the pool per body.
Responses(pool, n) ==
    {Response(TRUE, <<>>, FALSE)}
    \cup {Response(FALSE, b, e) : b \in SeqsUpTo(pool, n), e \in BOOLEAN}

ResponseLists(pool, n) == [1..Len(Urls) -> Responses(pool, n)]

IsValidLineText(l) == ParseCIDR(TrimSpace(l)).err = Nil

\* A sample of lines: every kind the reader tells apart.
LinePool ==
    { Line(TRUE, "blank", 0, 0, 0),
      Line(FALSE, "comment", 0, 0, 0),
      Line(FALSE, "garbage", 0, 0, 0),
      Line(FALSE, "cidr", 4, Pow2(AddrBits) - 1, AddrBits + 1),
      Line(FALSE, "cidr", 4, Pow2(AddrBits) - 1, AddrBits - 1),
      Line(TRUE, "cidr", 6, Pow2(AddrBits), AddrBits + 1) }

----------------------------------------------------------------------------
(* File system *)

Formats == <<"txt", "list", "yaml", "snippet">>

Exts == {"srs"} \cup Range(Formats)

\* "geoip.db" is Path(".", "", "db"), "geoip-cn.db" is Path(".", "cn", "db") and
\* "<dir>/geoip-<code>.<ext>" is Path(dir, code, ext).
Path(dir, code, ext) == <<dir, code, ext>>

Paths ==
    {Path(".", "", "db"), Path(".", "cn", "db")}
    \cup {Path("rule-set", c, e) : c \in CodeSet, e \in Exts}

Absent == [state |-> "absent", data |-> <<>>]

NoFiles == [p \in Paths |-> Absent]

NoReturn == [err |-> Nil, stage |-> "", skip |-> FALSE]

\* The variables a specification does not use keep these values.
Idle(a) ==
    /\ args = a
    /\ binary = InvalidDatabase
    /\ ret = NoReturn
    /\ metadata = ZeroMetadata
    /\ decoded = EmptyMap
    /\ countryMap = EmptyMap
    /\ chinaCIDRs = <<>>
    /\ fs = NoFiles
    /\ insertLog = <<>>
    /\ outputs = <<>>
    /\ pending = {}
    /\ stale = {}

----------------------------------------------------------------------------
(* Binary Trie Encoder: newWriter and write *)

NoTag == ""

\* mmdbwriter.New: a tree of the metadata's depth with no data; it refuses an
\* IP version or a record size the format does not have.
newWriter(md, codes) ==
    IF md.IPVersion \notin {4, 6} \/ md.RecordSize \notin {24, 28, 32}
    THEN [tree |-> [languages |-> <<>>, ipVersion |-> 0, recordSize |-> 0, data |-> <<>>],
          err |-> "options"]
    ELSE [tree |-> [languages |-> codes, ipVersion |-> md.IPVersion,
                    recordSize |-> md.RecordSize,
                    data |-> [a \in TreeAddrs(md.IPVersion) |-> NoTag]],
          err |-> Nil]

\* writer.Insert(item, mmdbtype.String(code)) with inserter.ReplaceWith: the
\* value replaces whatever the tree held in the network.  An IPv6 network
\* does not fit a tree of IPv4 depth.
Insert(tree, item, code) ==
    IF tree.ipVersion = 4 /\ item.fam = 6
    THEN [tree |-> tree, err |-> "insert"]
    ELSE [tree |-> [tree EXCEPT !.data =
                        [a \in DOMAIN tree.data |->
                            IF a \in Covered(tree.ipVersion, item) THEN code ELSE tree.data[a]]],
          err |-> Nil]

\* The state of the insertion loops: the tree, the Insert calls made so far
\* and the error that ended them.
Inserted(r, log, code, item) ==
    [tree |-> r.tree, log |-> Append(log, <<code, item>>), err |-> r.err]

\* for _, item := range data, from item i on; the first failing Insert ends it
RECURSIVE InsertItems(_, _, _, _)
InsertItems(acc, code, data, i) ==
    IF i > Len(data) \/ acc.err # Nil THEN acc
    ELSE InsertItems(Inserted(Insert(acc.tree, data[i], code), acc.log, code, data[i]),
                     code, data, i + 1)

\* InsertCodes without the test of codeMap: every key is inserted.
RECURSIVE InsertCodesUnfiltered(_, _, _, _, _)
InsertCodesUnfiltered(acc, dataMap, codeMap, order, k) ==
    IF k > Len(order) \/ acc.err # Nil THEN acc
    ELSE InsertCodesUnfiltered(InsertItems(acc, order[k], dataMap[order[k]], 1),
                               dataMap, codeMap, order, k + 1)

\* for code, data := range dataMap, the keys coming in the order `order`,
\* from key k on; a key that codeMap does not hold is skipped
RECURSIVE InsertCodes(_, _, _, _, _)
InsertCodes(acc, dataMap, codeMap, order, k) ==
    IF k > Len(order) \/ acc.err # Nil THEN acc
    ELSE InsertCodes(IF order[k] \notin codeMap THEN acc
                     ELSE InsertItems(acc, order[k], dataMap[order[k]], 1),
                     dataMap, codeMap, order, k + 1)

\* os.Create(output) followed by writer.WriteTo(outputFile); io is what the
\* file system does: "ok", "create" (Create fails) or "writeTo" (WriteTo
\* fails after Create truncated the file).
WriteFile(old, tree, log, io) ==
    CASE io = "create" -> [file |-> old, log |-> log, err |-> "create"]
      [] io = "writeTo" ->
            [file |-> [state |-> "partial", data |-> <<>>], log |-> log, err |-> "writeTo"]
      [] OTHER -> [file |-> [state |-> "complete", data |-> tree], log |-> log, err |-> Nil]

\* The end of write: an Insert error returns before the file is created.
Output(r, old, io) ==
    IF r.err # Nil THEN [file |-> old, log |-> r.log, err |-> r.err]
    ELSE WriteFile(old, r.tree, r.log, io)

\* write(writer, dataMap, output, codes).  keyOrder and order are the orders
\* in which the two `range dataMap` loops meet the keys; old is the file at
\* the output path before the call.
write(writer, dataMap, old, codes, keyOrder, order, io) ==
    Output(InsertCodes([tree |-> writer, log |-> <<>>, err |-> Nil], dataMap,
                       Range(SortStrings(IF Len(codes) = 0 THEN keyOrder ELSE codes)),
                       order, 1),
           old, io)

\* The maps that hold at most MaxNets networks of the pool, with or without
\* a key `cn` that has no network.
RECURSIVE MapOf(_)
MapOf(pairs) ==
    IF pairs = <<>> THEN EmptyMap
    ELSE MapAppend(MapOf(SubSeq(pairs, 1, Len(pairs) - 1)),
                   pairs[Len(pairs)][1], pairs[Len(pairs)][2])

WithKey(m, code) == [c \in DOMAIN m \cup {code} |-> IF c \in DOMAIN m THEN m[c] ELSE <<>>]

Maps(pool) ==
    LET base == {MapOf(ps) : ps \in SeqsUpTo(CodeSet \X pool, MaxNets)}
    IN  base \cup {WithKey(m, "cn") : m \in base}

\* The prefixes of the first address and the last host route, of both families.
NetPool ==
    {n \in AllNets : n.base = 0 \/ (n.len = Width(n.fam) /\ n.base = Pow2(Width(n.fam)) - 1)}

Filters == {<<>>, <<"cn">>, <<"us", "cn">>}

----------------------------------------------------------------------------
(* Text Format Emitters: writeCIDRsToFile *)

\* cidr.String(): the address in the notation of its family, "/", the length
String(cidr) == <<<<cidr.fam, cidr.base>>, "/", cidr.len>>

\* cidr.IP.To4() != nil
To4(cidr) == cidr.fam = 4

\* The list branch without the test of the family.
ListLineNoFamily(cidr) == <<"IP-CIDR,", String(cidr)>>

ListLine(cidr) ==
    IF To4(cidr) THEN <<"IP-CIDR,", String(cidr)>> ELSE <<"IP-CIDR6,", String(cidr)>>

SnippetLine(cidr) ==
    IF To4(cidr) THEN <<"ip-cidr, ", String(cidr)>> ELSE <<"ip6-cidr, ", String(cidr)>>

\* for _, cidr := range cidrs { writer.WriteString(...) }, from cidr i on
RECURSIVE WriteLines(_, _, _, _)
WriteLines(written, cidrs, format, i) ==
    IF i > Len(cidrs) THEN written
    ELSE WriteLines(
            Append(written,
                   CASE format = "txt" -> <<"", String(cidrs[i])>>
                     [] format = "list" -> ListLine(cidrs[i])
                     [] format = "yaml" -> <<"  - ", String(cidrs[i])>>
                     [] format = "snippet" -> SnippetLine(cidrs[i])),
            cidrs, format, i + 1)

\* The switch over the format: the lines the buffered writer flushes.
Emit(cidrs, format) ==
    CASE format = "yaml" -> WriteLines(<<<<"payload:">>>>, cidrs, format, 1)
      [] format \in {"txt", "list", "snippet"} -> WriteLines(<<>>, cidrs, format, 1)
      [] OTHER -> <<>>

\* writeCIDRsToFile(cidrs, outputDir, countryCode, format); old is the file
\* at the path before the call and io is "create" when os.Create fails.
writeCIDRsToFile(cidrs, old, format, io) ==
    IF io = "create" THEN [file |-> old, err |-> "create"]
    ELSE [file |-> [state |-> "complete", data |-> Emit(cidrs, format)], err |-> Nil]

\* The text before the CIDR on a line of each format.
LinePrefix(format, fam) ==
    CASE format = "txt" -> ""
      [] format = "list" -> IF fam = 4 THEN "IP-CIDR," ELSE "IP-CIDR6,"
      [] format = "yaml" -> "  - "
      [] format = "snippet" -> IF fam = 4 THEN "ip-cidr, " ELSE "ip6-cidr, "

HeaderLines(format) == IF format = "yaml" THEN 1 ELSE 0

\* The artifact of one format holds the lines of the range list cidrs.
Projects(lines, cidrs, format) ==
    /\ Len(lines) = HeaderLines(format) + Len(cidrs)
    /\ format = "yaml" => lines[1] = <<"payload:">>
    /\ \A i \in 1..Len(cidrs) :
          lines[HeaderLines(format) + i]
              = <<LinePrefix(format, cidrs[i].fam),
                  <<<<cidrs[i].fam, cidrs[i].base>>, "/", cidrs[i].len>>>>

----------------------------------------------------------------------------
(* The driver: release *)

\* countryMap["cn"] = chinaCIDRs with the entry of cn kept and extended.
OverrideMerge(m, code, cidrs) ==
    [c \in DOMAIN m \cup {code} |->
        IF c = code THEN (IF c \in DOMAIN m THEN m[c] \o cidrs ELSE cidrs) ELSE m[c]]

\* countryMap["cn"] = chinaCIDRs
Override(m, code, cidrs) ==
    [c \in DOMAIN m \cup {code} |-> IF c = code THEN cidrs ELSE m[c]]

\* os.RemoveAll that removes nothing.
RemoveNothing(files, dir) == files

\* os.RemoveAll(ruleSetOutput)
RemoveAll(files, dir) ==
    [p \in DOMAIN files |-> IF p[1] = dir THEN Absent ELSE files[p]]

\* The rule-set of one country: one default rule holding the CIDR strings.
PlainRuleSet(ipNets) ==
    <<[type |-> "default", ip_cidr |-> [i \in 1..Len(ipNets) |-> String(ipNets[i])]]>>

\* os.Create(srsPath) and srs.Write: io "srs-create" fails the first,
\* "srs-write" the second, after Create made the file.
WriteSRS(acc, dir, code, ipNets, io) ==
    CASE io = "srs-create" -> [files |-> acc.files, err |-> "create"]
      [] io = "srs-write" ->
            [files |-> [acc.files EXCEPT ![Path(dir, code, "srs")] =
                            [state |-> "partial", data |-> <<>>]],
             err |-> "srs.Write"]
      [] OTHER ->
            [files |-> [acc.files EXCEPT ![Path(dir, code, "srs")] =
                            [state |-> "complete", data |-> PlainRuleSet(ipNets)]],
             err |-> Nil]

TextFile(acc, r, dir, code, format) ==
    [files |-> [acc.files EXCEPT ![Path(dir, code, format)] = r.file], err |-> r.err]

\* for _, format := range []string{"txt", "list", "yaml", "snippet"}, from
\* format k on; io names the format whose os.Create fails
RECURSIVE WriteFormats(_, _, _, _, _, _)
WriteFormats(acc, dir, code, ipNets, io, k) ==
    IF k > Len(Formats) \/ acc.err # Nil THEN acc
    ELSE WriteFormats(
            TextFile(acc,
                     writeCIDRsToFile(ipNets, acc.files[Path(dir, code, Formats[k])], Formats[k],
                                      IF io = Formats[k] THEN "create" ELSE "ok"),
                     dir, code, Formats[k]),
            dir, code, ipNets, io, k + 1)

\* The body of the loop over countryMap for one country.
RuleSetFiles(files, dir, code, ipNets, io) ==
    WriteFormats(WriteSRS([files |-> files, err |-> Nil], dir, code, ipNets, io),
                 dir, code, ipNets, io, 1)

ReleaseArgs ==
    [source |-> "Dreamacro/maxmind-geoip", destination |-> "caocaocc/geoip",
     output |-> Path(".", "", "db"), ruleSetOutput |-> "rule-set"]

CnOutput == Path(".", "cn", "db")

\* What an earlier build left in the rule-set directory for code c.
StaleFile(ext) ==
    IF ext = "srs" THEN [state |-> "complete", data |-> PlainRuleSet(<<Net(4, 0, 0)>>)]
    ELSE [state |-> "complete", data |-> Emit(<<Net(4, 0, 0)>>, ext)]

\* The lines the sources of a build answer with: no CIDR, an IPv4 and an IPv6 CIDR.
ReleaseLinePool == {l \in LinePool : l.kind = "garbage" \/ IsValidLineText(l)}

Fail(stage, e) == [err |-> e, stage |-> stage, skip |-> FALSE]

Init ==
    /\ pc = "fetch_source"
    /\ args = ReleaseArgs
    /\ binary = InvalidDatabase
    /\ ret = NoReturn
    /\ metadata = ZeroMetadata
    /\ decoded = EmptyMap
    /\ countryMap = EmptyMap
    /\ chinaCIDRs = <<>>
    /\ stale \in {{}, {"jp"}}
    /\ fs = [p \in Paths |-> IF p[1] = "rule-set" /\ p[2] \in stale THEN StaleFile(p[3]) ELSE Absent]
    /\ insertLog = <<>>
    /\ outputs = <<>>
    /\ pending = {}

\* sourceRelease, err := fetch(source)
FetchSource ==
    /\ pc = "fetch_source"
    /\ \E ok \in BOOLEAN :
          IF ok THEN pc' = "fetch_destination" /\ ret' = ret
          ELSE pc' = "done" /\ ret' = Fail("fetch_source", "fetch")
    /\ UNCHANGED <<args, binary, metadata, decoded, countryMap, chinaCIDRs, fs, insertLog,
                   outputs, pending, stale>>

\* fetch(destination) and the already-latest test; latest says whether the
\* name of the destination release contains the name of the source release.
FetchDestination ==
    /\ pc = "fetch_destination"
    /\ \E found \in BOOLEAN, noSkip \in BOOLEAN, latest \in BOOLEAN :
          IF found /\ ~noSkip /\ latest
          THEN pc' = "done" /\ ret' = [err |-> Nil, stage |-> "fetch_destination", skip |-> TRUE]
          ELSE pc' = "download" /\ ret' = ret
    /\ UNCHANGED <<args, binary, metadata, decoded, countryMap, chinaCIDRs, fs, insertLog,
                   outputs, pending, stale>>

\* binary, err := download(sourceRelease)
Download ==
    /\ pc = "download"
    /\ \/ /\ pc' = "done" /\ ret' = Fail("download", "download") /\ binary' = binary
       \/ /\ \E db \in Databases(HostLeafPool(4), HostLeafPool(6)) : binary' = db
          /\ pc' = "parse" /\ ret' = ret
    /\ UNCHANGED <<args, metadata, decoded, countryMap, chinaCIDRs, fs, insertLog, outputs,
                   pending, stale>>

\* metadata, countryMap, err := parse(binary)
Parse ==
    /\ pc = "parse"
    /\ \E r \in {parse(binary)} :
          /\ metadata' = r.metadata
          /\ countryMap' = r.countryMap
          /\ decoded' = r.countryMap
          /\ IF r.err # Nil THEN pc' = "done" /\ ret' = Fail("parse", r.err)
             ELSE pc' = "fetch_china" /\ ret' = ret
    /\ UNCHANGED <<args, binary, chinaCIDRs, fs, insertLog, outputs, pending, stale>>

\* chinaCIDRs, err := fetchChinaIPCIDR()
FetchChina ==
    /\ pc = "fetch_china"
    /\ \E rs \in ResponseLists(ReleaseLinePool, 1) :
         \E r \in {fetchChinaIPCIDR(rs)} :
          /\ chinaCIDRs' = r.cidrs
          /\ IF r.err # Nil THEN pc' = "done" /\ ret' = Fail("fetch_china", r.err)
             ELSE pc' = "override" /\ ret' = ret
    /\ UNCHANGED <<args, binary, metadata, decoded, countryMap, fs, insertLog, outputs,
                   pending, stale>>

\* countryMap["cn"] = chinaCIDRs
OverrideCN ==
    /\ pc = "override"
    /\ countryMap' = Override(countryMap, "cn", chinaCIDRs)
    /\ pc' = "write_full"
    /\ UNCHANGED <<args, binary, ret, metadata, decoded, chinaCIDRs, fs, insertLog, outputs,
                   pending, stale>>

\* allCodes, newWriter(metadata, allCodes) and write(writer, countryMap, output, nil)
WriteFull ==
    /\ pc = "write_full"
    /\ \E allCodes \in Perms(DOMAIN countryMap), keyOrder \in Perms(DOMAIN countryMap),
          order \in Perms(DOMAIN countryMap), io \in {"ok", "create", "writeTo"} :
         \E w \in {newWriter(metadata, allCodes)} :
           IF w.err # Nil
           THEN /\ pc' = "done" /\ ret' = Fail("write_full", w.err)
                /\ UNCHANGED <<fs, insertLog>>
           ELSE \E r \in {write(w.tree, countryMap, fs[args.output], <<>>, keyOrder, order, io)} :
                  /\ fs' = [fs EXCEPT ![args.output] = r.file]
                  /\ insertLog' = r.log
                  /\ IF r.err # Nil THEN pc' = "done" /\ ret' = Fail("write_full", r.err)
                     ELSE pc' = "write_cn" /\ ret' = ret
    /\ UNCHANGED <<args, binary, metadata, decoded, countryMap, chinaCIDRs, outputs, pending,
                   stale>>

\* newWriter(metadata, []string{"cn"}) and write(writer, countryMap, "geoip-cn.db", []string{"cn"})
WriteCN ==
    /\ pc = "write_cn"
    /\ \E order \in Perms(DOMAIN countryMap), io \in {"ok", "create", "writeTo"} :
         \E w \in {newWriter(metadata, <<"cn">>)} :
           IF w.err # Nil
           THEN /\ pc' = "done" /\ ret' = Fail("write_cn", w.err)
                /\ UNCHANGED <<fs, insertLog>>
           ELSE \E r \in {write(w.tree, countryMap, fs[CnOutput], <<"cn">>, <<>>, order, io)} :
                  /\ fs' = [fs EXCEPT ![CnOutput] = r.file]
                  /\ insertLog' = r.log
                  /\ IF r.err # Nil THEN pc' = "done" /\ ret' = Fail("write_cn", r.err)
                     ELSE pc' = "mkdir" /\ ret' = ret
    /\ UNCHANGED <<args, binary, metadata, decoded, countryMap, chinaCIDRs, outputs, pending,
                   stale>>

\* os.RemoveAll(ruleSetOutput) and os.MkdirAll(ruleSetOutput, 0o755)
MakeRuleSetDir ==
    /\ pc = "mkdir"
    /\ fs' = RemoveAll(fs, args.ruleSetOutput)
    /\ \E ok \in BOOLEAN :
          IF ok THEN pc' = "rule_set" /\ ret' = ret /\ pending' = DOMAIN countryMap
          ELSE pc' = "done" /\ ret' = Fail("mkdir", "mkdir") /\ pending' = pending
    /\ UNCHANGED <<args, binary, metadata, decoded, countryMap, chinaCIDRs, insertLog, outputs,
                   stale>>

\* One pass of the loop over countryMap: the .srs file and the four text files
RuleSetCountry ==
    /\ pc = "rule_set"
    /\ \E countryCode \in pending, io \in {"ok", "srs-create", "srs-write"} \cup Range(Formats) :
         \E r \in {RuleSetFiles(fs, args.ruleSetOutput, countryCode, countryMap[countryCode], io)} :
          /\ fs' = r.files
          /\ IF r.err # Nil
             THEN pc' = "done" /\ ret' = Fail("rule_set", r.err) /\ pending' = pending
             ELSE pc' = pc /\ ret' = ret /\ pending' = pending \ {countryCode}
    /\ UNCHANGED <<args, binary, metadata, decoded, countryMap, chinaCIDRs, insertLog, outputs,
                   stale>>

\* setActionOutput("tag", *sourceRelease.Name); return nil
Finish ==
    /\ pc = "rule_set" /\ pending = {}
    /\ pc' = "done"
    /\ ret' = [err |-> Nil, stage |-> "finished", skip |-> FALSE]
    /\ UNCHANGED <<args, binary, metadata, decoded, countryMap, chinaCIDRs, fs, insertLog,
                   outputs, pending, stale>>

Next ==
    \/ FetchSource \/ FetchDestination \/ Download \/ Parse \/ FetchChina \/ OverrideCN
    \/ WriteFull \/ WriteCN \/ MakeRuleSetDir \/ RuleSetCountry \/ Finish

Spec == Init /\ [][Next]_vars

\* The override step of release has run.
Overridden ==
    \/ pc \in {"write_full", "write_cn", "mkdir", "rule_set"}
    \/ pc = "done" /\ ret.stage \in {"write_full", "write_cn", "mkdir", "rule_set", "finished"}

\* C1: the override is a total replacement: after it the entry of cn is
\* exactly the replacement sequence (also when that is empty, and whatever
\* the decoder produced for cn), cn is a key, and every other key of the
\* decoded map keeps its value.
C1_OverrideTotalReplacement ==
    Overridden =>
        /\ "cn" \in DOMAIN countryMap
        /\ countryMap["cn"] = chinaCIDRs
        /\ DOMAIN countryMap = DOMAIN decoded \cup {"cn"}
        /\ \A c \in DOMAIN decoded \ {"cn"} : countryMap[c] = decoded[c]

\* The decoder produced networks for cn and for another code, and the
\* replacement is not empty.
C1_Witness ==
    /\ pc = "write_full"
    /\ "cn" \in DOMAIN decoded /\ "us" \in DOMAIN decoded
    /\ chinaCIDRs # <<>>
    /\ decoded["cn"] # chinaCIDRs

RuleSetPaths == {p \in Paths : p[1] = "rule-set"}

\* The stages of release in the order they run.
StageOrder ==
    <<"fetch_source", "fetch_destination", "download", "parse", "fetch_china", "write_full",
      "write_cn", "mkdir", "rule_set", "finished">>

StageRank(stage) == CHOOSE i \in 1..Len(StageOrder) : StageOrder[i] = stage

\* C8: when a stage of release fails, release returns that error, no file is
\* left partly written, the file at the output path of a failed encode does
\* not exist, no later stage has written anything, and the artifacts of the
\* earlier stages are complete.
C8_FatalErrorPropagation ==
    (pc = "done" /\ ret.err # Nil /\ ret.stage \in Range(StageOrder)) =>
        /\ \A p \in Paths : fs[p].state # "partial"
        /\ ret.stage = "write_full" => fs[args.output].state = "absent"
        /\ ret.stage = "write_cn" => fs[CnOutput].state = "absent"
        /\ StageRank(ret.stage) < StageRank("write_full") => fs[args.output].state = "absent"
        /\ StageRank(ret.stage) < StageRank("write_cn") => fs[CnOutput].state = "absent"
        /\ StageRank(ret.stage) < StageRank("mkdir") =>
               \A p \in RuleSetPaths :
                   fs[p] = (IF p[2] \in stale THEN StaleFile(p[3]) ELSE Absent)
        /\ StageRank(ret.stage) > StageRank("write_full") => fs[args.output].state = "complete"
        /\ StageRank(ret.stage) > StageRank("write_cn") => fs[CnOutput].state = "complete"

----------------------------------------------------------------------------
(* Specification of the decoder alone *)

InitParse ==
    /\ pc = "parse"
    /\ \E db \in Databases(LeafPool(4), LeafPool(6)) : Idle(db)

ParseCall ==
    /\ pc = "parse"
    /\ LET r == parse(args)
       IN  /\ metadata' = r.metadata
           /\ countryMap' = r.countryMap
           /\ ret' = [ret EXCEPT !.err = r.err, !.stage = "parse"]
    /\ pc' = "done"
    /\ UNCHANGED <<args, binary, decoded, chinaCIDRs, fs, insertLog, outputs, pending, stale>>

NextParse == ParseCall

SpecParse == InitParse /\ [][NextParse]_vars

\* C6: the decoder is all-or-nothing: whenever parse returns an error, the
\* country map it returns holds no entry.
C6_ParseAllOrNothing ==
    (pc = "done" /\ ret.stage = "parse" /\ ret.err # Nil) => DOMAIN countryMap = {}

----------------------------------------------------------------------------
(* Specification of the CIDR source reader alone *)

InitFetch ==
    /\ pc = "fetchChinaIPCIDR"
    /\ \E rs \in ResponseLists(LinePool, MaxLines) : Idle(rs)

FetchCall ==
    /\ pc = "fetchChinaIPCIDR"
    /\ LET r == fetchChinaIPCIDR(args)
       IN  /\ chinaCIDRs' = r.cidrs
           /\ ret' = [ret EXCEPT !.err = r.err, !.stage = "fetchChinaIPCIDR"]
    /\ pc' = "done"
    /\ UNCHANGED <<args, binary, metadata, decoded, countryMap, fs, insertLog, outputs, pending, stale>>

NextFetch == FetchCall

SpecFetch == InitFetch /\ [][NextFetch]_vars

\* A line is a valid CIDR line when, white space aside, it is the text of
\* an address and a prefix length the family allows.
IsValidLine(l) == l.kind = "cidr" /\ l.len <= Width(l.fam)

NetOfLine(l) == Net(l.fam, (l.addr \div Pow2(Width(l.fam) - l.len)) * Pow2(Width(l.fam) - l.len), l.len)

ValidNets(body) ==
    LET valid == SelectSeq(body, IsValidLine)
    IN  [k \in 1..Len(valid) |-> NetOfLine(valid[k])]

Retrieved(responses) ==
    \A i \in 1..Len(Urls) : ~responses[i].getErr /\ ~responses[i].scanErr

----------------------------------------------------------------------------
(* Specifications of the encoder alone: one run, and two runs on one input *)

OutputPath == Path(".", "", "db")

InitWrite ==
    /\ pc = "write"
    /\ \E v \in {4, 6}, rs \in RecordSizes, m \in Maps(NetPool), cs \in Filters :
          Idle([metadata |-> [IPVersion |-> v, RecordSize |-> rs], dataMap |-> m, codes |-> cs])

\* The loop that collects the keys runs only when no code is given.
KeyOrders(dataMap, codes) == IF Len(codes) = 0 THEN Perms(DOMAIN dataMap) ELSE {<<>>}

Languages(codes, keyOrder) == IF Len(codes) = 0 THEN SortStrings(keyOrder) ELSE codes

WriteRun ==
    \E keyOrder \in KeyOrders(args.dataMap, args.codes), order \in Perms(DOMAIN args.dataMap),
       io \in {"ok", "create", "writeTo"} :
      \E w \in {newWriter(args.metadata, Languages(args.codes, keyOrder))} :
        /\ w.err = Nil
        /\ \E r \in {write(w.tree, args.dataMap, fs[OutputPath], args.codes, keyOrder, order, io)} :
              /\ fs' = [fs EXCEPT ![OutputPath] = r.file]
              /\ insertLog' = r.log
              /\ ret' = [ret EXCEPT !.err = r.err, !.stage = "write"]
              /\ outputs' = Append(outputs, [err |-> r.err, file |-> r.file])

WriteCall ==
    /\ pc = "write"
    /\ WriteRun
    /\ pc' = "done"
    /\ UNCHANGED <<args, binary, metadata, decoded, countryMap, chinaCIDRs, pending, stale>>

WriteAgain ==
    /\ pc = "done" /\ Len(outputs) = 1
    /\ WriteRun
    /\ pc' = "done"
    /\ UNCHANGED <<args, binary, metadata, decoded, countryMap, chinaCIDRs, pending, stale>>

NextWrite == WriteCall

SpecWrite == InitWrite /\ [][NextWrite]_vars

NextRewrite == WriteCall \/ WriteAgain

SpecRewrite == InitWrite /\ [][NextRewrite]_vars

\* The codes of the map that a call of write retains.
Retained(dataMap, codes) ==
    IF Len(codes) = 0 THEN DOMAIN dataMap ELSE Range(codes) \cap DOMAIN dataMap

\* The retained codes that have a network holding address a of the tree.
Covering(ipVersion, dataMap, codes, a) ==
    {c \in Retained(dataMap, codes) :
        \E i \in 1..Len(dataMap[c]) : a \in Covered(ipVersion, dataMap[c][i])}

WriteSucceeded ==
    pc = "done" /\ ret.stage = "write" /\ ret.err = Nil /\ fs[OutputPath].state = "complete"

\* C2: write inserts the networks code by code in ascending order of the
\* codes: no Insert call tagged b comes before an Insert call tagged a when
\* a < b.
C2_SortedInsertion ==
    (pc = "done" /\ ret.stage = "write") =>
        \A i, j \in 1..Len(insertLog) :
            i < j => ~Less(insertLog[j][1], insertLog[i][1])

\* C3: two runs of write on the same metadata, map and code filter that both
\* succeed produce the same trie.
C3_Deterministic ==
    (Len(outputs) = 2 /\ outputs[1].err = Nil /\ outputs[2].err = Nil) =>
        outputs[1].file = outputs[2].file

\* C4: an address that networks of several retained codes hold is tagged with
\* the lexicographically last of these codes.
C4_LastSortedCodeWins ==
    WriteSucceeded =>
        \A a \in TreeAddrs(args.metadata.IPVersion) :
            \A c \in Covering(args.metadata.IPVersion, args.dataMap, args.codes, a) :
                ~Less(fs[OutputPath].data.data[a], c)

\* C5: the trie holds the networks of the retained codes and nothing else:
\* the Insert calls are exactly the networks of the listed codes (of every
\* key when no code is listed), each with its own code; an address is tagged
\* exactly when a retained network holds it, and with a code that has such a
\* network; no unlisted code tags anything.
C5_CodeFilter ==
    WriteSucceeded =>
        LET v == args.metadata.IPVersion
            kept == Retained(args.dataMap, args.codes)
            tags == fs[OutputPath].data.data
        IN  /\ Range(insertLog) =
                   UNION {{<<c, args.dataMap[c][i]>> : i \in 1..Len(args.dataMap[c])} : c \in kept}
            /\ \A c \in kept :
                   SelectSeq(insertLog, LAMBDA e : e[1] = c)
                       = [i \in 1..Len(args.dataMap[c]) |-> <<c, args.dataMap[c][i]>>]
            /\ \A a \in TreeAddrs(v) :
                   IF Covering(v, args.dataMap, args.codes, a) = {}
                   THEN tags[a] = NoTag
                   ELSE tags[a] \in Covering(v, args.dataMap, args.codes, a)

\* The filter [cn] on a map that also holds networks of another code, one of
\* them overlapping a network of cn.
C5_Witness ==
    /\ WriteSucceeded
    /\ args.codes = <<"cn">>
    /\ "cn" \in DOMAIN args.dataMap /\ "us" \in DOMAIN args.dataMap
    /\ Len(args.dataMap["cn"]) > 0 /\ Len(args.dataMap["us"]) > 0
    /\ Covered(args.metadata.IPVersion, args.dataMap["cn"][1])
           \cap Covered(args.metadata.IPVersion, args.dataMap["us"][1]) # {}

----------------------------------------------------------------------------
(* Specification of the text emitters alone *)

InitEmit ==
    /\ pc = "writeCIDRsToFile"
    /\ \E cidrs \in SeqsUpTo(AllNets, MaxNets), code \in CodeSet, f \in Range(Formats) :
          Idle([cidrs |-> cidrs, countryCode |-> code, format |-> f])

EmitCall ==
    /\ pc = "writeCIDRsToFile"
    /\ \E io \in {"ok", "create"} :
         \E r \in {writeCIDRsToFile(args.cidrs, fs[Path("rule-set", args.countryCode, args.format)],
                                     args.format, io)} :
            /\ fs' = [fs EXCEPT ![Path("rule-set", args.countryCode, args.format)] = r.file]
            /\ ret' = [ret EXCEPT !.err = r.err, !.stage = "writeCIDRsToFile"]
    /\ pc' = "done"
    /\ UNCHANGED <<args, binary, metadata, decoded, countryMap, chinaCIDRs, insertLog, outputs,
                   pending, stale>>

NextEmit == EmitCall

SpecEmit == InitEmit /\ [][NextEmit]_vars

====
